---- MODULE Spec2Model ----
(***************************************************************************)
(* Verification model of cheri-dwarf-scanner:                              *)
(*   - StructLayoutScraper (struct_layout_scraper.cc): per compilation     *)
(*     unit accumulation of record types, two-phase flush into the shared  *)
(*     relational store, flattening and sub-object alias discovery;        *)
(*   - ThreadPool (src/pool.hh): one task per scraper, futures.            *)
(* Strings (type, member and flattened names) are sequences of one         *)
(* character strings so that concatenation, substr, prefix and LIKE are    *)
(* computed, not assumed.                                                  *)
(***************************************************************************)
EXTENDS Integers, Sequences, FiniteSets, TLC

(***************************************************************************)
(* Bounds of the model.                                                    *)
(***************************************************************************)
\* number of scraper jobs sharing the store
NumScrapers == 2
\* total number of compilation units flushed by all scrapers together
MaxUnits == 2
\* record DIEs visited at the top level of one compilation unit
MaxVisits == 2

Scrapers == 1..NumScrapers

\* std::nullopt of the std::optional<unsigned> attributes and columns (SQL NULL)
NoVal == -1

(***************************************************************************)
(* The DWARF input: a catalogue of record DIEs.  A member DIE carries the  *)
(* attributes VisitMember reads and the TypeInfo of its DW_AT_type         *)
(* (type = index of the record DIE when the type is a record, 0 if not;    *)
(* array = the type is an array, array_items = its element count).         *)
(***************************************************************************)
Mem(name, type, type_size, location, bit_size) ==
    [name |-> name, type |-> type, type_size |-> type_size,
     byte_size |-> NoVal, bit_size |-> bit_size,
     location |-> location, data_bit_offset |-> NoVal, bit_offset |-> NoVal,
     array |-> FALSE, array_items |-> NoVal]

\* a member whose type is an array of `items` elements (NoVal: no count)
Arr(name, type_size, location, items) ==
    [Mem(name, 0, type_size, location, NoVal)
        EXCEPT !.array = TRUE, !.array_items = items]

Rec(name, file, line, size, kind, members) ==
    [declaration |-> FALSE, specification |-> FALSE, byte_size |-> size,
     name |-> name, file |-> file, line |-> line, kind |-> kind,
     members |-> members]

\* struct I { int a; int b; }                       f:1
DieInner == Rec(<<"I">>, "f", 1, 8, "struct",
                <<Mem(<<"a">>, 0, 4, 0, NoVal), Mem(<<"b">>, 0, 4, 4, NoVal)>>)
\* struct O { struct I inner; int c; }              f:5
DieOuter == Rec(<<"O">>, "f", 5, 12, "struct",
                <<Mem(<<"i", "n">>, 1, 8, 0, NoVal), Mem(<<"c">>, 0, 4, 8, NoVal)>>)
\* struct O { int c; struct I inner; }              f:5 (another definition
\* of the same (name, file, line), e.g. under a different #ifdef)
DieOuterAlt == Rec(<<"O">>, "f", 5, 12, "struct",
                   <<Mem(<<"c">>, 0, 4, 0, NoVal), Mem(<<"i", "n">>, 1, 8, 4, NoVal)>>)
\* struct B { int f : 3; <2 bytes> z : 0 (DW_AT_bit_size 0); }   f:9
DieBits == Rec(<<"B">>, "f", 9, 8, "struct",
               <<Mem(<<"f">>, 0, 4, 0, 3), Mem(<<"z">>, 0, 2, 4, 0)>>)

\* struct N (no members), without DW_AT_byte_size                 f:20
DieNoSize == Rec(<<"N">>, "f", 20, NoVal, "struct", <<>>)
\* struct M { int a; }, without DW_AT_byte_size                   f:21
DieNoSizeMembers == Rec(<<"M">>, "f", 21, NoVal, "struct",
                        <<Mem(<<"a">>, 0, 4, 0, NoVal)>>)
\* a record DIE that carries DW_AT_specification                  f:22
DieSpecification == [Rec(<<"S">>, "f", 22, 4, "class",
                         <<Mem(<<"a">>, 0, 4, 0, NoVal)>>)
                       EXCEPT !.specification = TRUE]
\* struct P { struct N n; }: the type of n is the record without size  f:30
DieHolder == Rec(<<"P">>, "f", 30, 4, "struct",
                 <<Mem(<<"n">>, 5, 0, 0, NoVal)>>)
\* struct I { long a; int b; int c; }           f:1 (the key of DieInner,
\* another size and other members)
DieInnerResized == Rec(<<"I">>, "f", 1, 16, "struct",
                       <<Mem(<<"a">>, 0, 8, 0, NoVal),
                         Mem(<<"b">>, 0, 4, 8, NoVal),
                         Mem(<<"c">>, 0, 4, 12, NoVal)>>)

\* struct F { int n; int d[]; }                                   f:40
DieFlex == Rec(<<"F">>, "f", 40, 4, "struct",
               <<Mem(<<"n">>, 0, 4, 0, NoVal), Arr(<<"d">>, 0, 4, NoVal)>>)
\* struct Z { int n; int d[0]; int e[2]; }                        f:41
DieFlexZero == Rec(<<"Z">>, "f", 41, 12, "struct",
                   <<Mem(<<"n">>, 0, 4, 0, NoVal), Arr(<<"d">>, 0, 4, 0),
                     Arr(<<"e">>, 8, 4, 2)>>)
\* struct W { int x; struct F in; }                               f:50
DieWrap == Rec(<<"W">>, "f", 50, 8, "struct",
               <<Mem(<<"x">>, 0, 4, 0, NoVal), Mem(<<"i", "n">>, 10, 4, 4, NoVal)>>)

\* a bit-field described the DWARF 2 way: DW_AT_data_member_location of the
\* storage unit, DW_AT_byte_size of the unit, DW_AT_bit_size and
\* DW_AT_bit_offset (counted from the most significant bit of the unit)
LegacyBits(name, location, byte_size, bit_size, bit_offset) ==
    [Mem(name, 0, byte_size, location, bit_size)
        EXCEPT !.byte_size = byte_size, !.bit_offset = bit_offset]

\* struct L { int a; unsigned f : 3; unsigned g : 5; }            f:60
\* f and g live in the 4-byte unit at byte 4
DieLegacyBits == Rec(<<"L">>, "f", 60, 8, "struct",
                     <<Mem(<<"a">>, 0, 4, 0, NoVal),
                       LegacyBits(<<"f">>, 4, 4, 3, 29),
                       LegacyBits(<<"g">>, 4, 4, 5, 24)>>)
\* struct K { unsigned h : 7; }: the unit is at byte 0               f:61
DieLegacyBitsAtZero == Rec(<<"K">>, "f", 61, 4, "struct",
                           <<LegacyBits(<<"h">>, 0, 4, 7, 25)>>)

Dies == <<DieInner, DieOuter, DieOuterAlt, DieBits,
          DieNoSize, DieNoSizeMembers, DieSpecification, DieHolder,
          DieInnerResized, DieFlex, DieFlexZero, DieWrap,
          DieLegacyBits, DieLegacyBitsAtZero>>

\* the DIEs that appear at the top level of a compilation unit
TopDies == 1..4

(***************************************************************************)
(* CapabilityEncoder: compressed bounds with a MantissaWidth-bit mantissa. *)
(* The smallest exponent e is taken for which the interval, with its base  *)
(* rounded down and its top rounded up to 2^e, spans fewer than            *)
(* 2^MantissaWidth units of 2^e.                                           *)
(***************************************************************************)
MantissaWidth == 2
MaxExponent == 6

RECURSIVE Pow2(_)
Pow2(n) == IF n = 0 THEN 1 ELSE 2 * Pow2(n - 1)

CeilDiv(a, b) == (a + b - 1) \div b

ExponentFits(base, length, e) ==
    CeilDiv(base + length, Pow2(e)) - (base \div Pow2(e)) < Pow2(MantissaWidth)

RequiredExponent(base, length) ==
    CHOOSE e \in 0..MaxExponent :
        /\ ExponentFits(base, length, e)
        /\ \A f \in 0..(e - 1) : ~ExponentFits(base, length, f)

\* returns <<representable base, representable length>>
FindRepresentableRange(base, length) ==
    LET e == RequiredExponent(base, length)
        rbase == (base \div Pow2(e)) * Pow2(e)
        rtop == CeilDiv(base + length, Pow2(e)) * Pow2(e)
    IN <<rbase, rtop - rbase>>

(***************************************************************************)
(* VisitMember: geometry of a member (byte/bit size and offset).           *)
(***************************************************************************)
ValueOr(opt, dflt) == IF opt = NoVal THEN dflt ELSE opt

MemberGeometry(m, little_endian) ==
    LET byte_size == ValueOr(m.byte_size, m.type_size)
        bit_size == m.bit_size
        data_offset == ValueOr(m.location, 0)
        bit_offset0 == IF m.data_bit_offset # NoVal
                       THEN data_offset * 8 + m.data_bit_offset
                       ELSE NoVal
        bit_offset == IF m.bit_offset # NoVal
                      THEN IF little_endian
                           THEN ValueOr(bit_offset0, 0) + byte_size * 8
                                - (m.bit_offset + ValueOr(bit_size, 0))
                           ELSE ValueOr(bit_offset0, 0) + m.bit_offset
                      ELSE bit_offset0
    IN [byte_size |-> byte_size, bit_size |-> bit_size,
        byte_offset |-> IF bit_offset # NoVal THEN bit_offset \div 8 ELSE data_offset,
        bit_offset |-> IF bit_offset # NoVal THEN bit_offset % 8 ELSE NoVal]

(***************************************************************************)
(* VisitCommon / VisitMember / VisitMemberType.  The visit state st is     *)
(*   map  the scraper's struct_type_map_ (key -> StructTypeEntry),         *)
(*   tid, mid  the process-wide atomic id counters,                        *)
(*   ret  the optional id VisitCommon returns,                             *)
(*   err  an exception is propagating,                                     *)
(*   warn  the LOG(kWarn) messages emitted,                                *)
(*   le  dwsrc_->GetContext().isLittleEndian(),                            *)
(*   ndebug  the build has NDEBUG defined (assert() expands to nothing),   *)
(*   abort  an assert() failed and the process was aborted.                *)
(***************************************************************************)
KeyOf(row) == <<row.name, row.file, row.line>>

\* VisitMemberType that leaves the member's flags at their default
MemberTypeInfo_WithoutFlags(m) ==
    [is_array |-> FALSE, array_items |-> m.array_items]

\* VisitMemberType: the member takes the flags (of which the model keeps
\* is_array) and array_items of the TypeInfo of its type
MemberTypeInfo(m) ==
    [is_array |-> m.array, array_items |-> m.array_items]

RECURSIVE VisitCommon(_, _, _)
RECURSIVE VisitMembers(_, _, _, _, _)

\* VisitMember + VisitMemberType for the i-th member child and the ones
\* after it; acc holds the StructMemberRows built so far (e.members)
VisitMembers(st, row, mdies, i, acc) ==
    IF i > Len(mdies) \/ st.err \/ st.abort THEN [st |-> st, members |-> acc]
    ELSE LET m == mdies[i]
             id == st.mid + 1
             st1 == [st EXCEPT !.mid = id]
             visited == IF m.type # 0
                        THEN VisitCommon(st1, m.type, Dies[m.type].kind)
                        ELSE [st1 EXCEPT !.ret = NoVal]
             \* assert(member.nested && *member.nested != 0)
             st2 == IF /\ m.type # 0
                       /\ ~visited.err
                       /\ ~visited.ndebug
                       /\ (visited.ret = NoVal \/ visited.ret = 0)
                    THEN [visited EXCEPT !.abort = TRUE]
                    ELSE visited
             g == MemberGeometry(m, st.le)
             member == [id |-> id, owner |-> row.id,
                        nested |-> IF m.type # 0 THEN st2.ret ELSE NoVal,
                        name |-> m.name,
                        byte_size |-> g.byte_size, bit_size |-> g.bit_size,
                        byte_offset |-> g.byte_offset,
                        bit_offset |-> g.bit_offset,
                        is_array |-> MemberTypeInfo(m).is_array,
                        array_items |-> MemberTypeInfo(m).array_items]
         IN VisitMembers(st2, row, mdies, i + 1, Append(acc, member))

\* VisitCommon taking the id of the row before it looks the key up
VisitCommon_AllocatesBeforeLookup(st, d, kind) ==
    LET die == Dies[d] IN
    IF die.declaration THEN [st EXCEPT !.ret = NoVal]
    ELSE IF die.specification THEN [st EXCEPT !.err = TRUE, !.ret = NoVal]
    ELSE IF die.byte_size = NoVal
         THEN [st EXCEPT !.ret = NoVal, !.warn = @ + 1]
    ELSE LET key == <<die.name, die.file, die.line>>
             id == st.tid + 1
         IN
         IF key \in DOMAIN st.map
         THEN [st EXCEPT !.tid = id, !.ret = st.map[key].data.id]
         ELSE LET row == [id |-> id, file |-> die.file, line |-> die.line,
                          name |-> die.name, size |-> die.byte_size,
                          flags |-> {kind}, has_imprecise |-> FALSE]
                  r == VisitMembers([st EXCEPT !.tid = id], row, die.members,
                                    1, <<>>)
                  e == [data |-> row, members |-> r.members,
                        flattened_layout |-> <<>>, skip_postprocess |-> FALSE]
              IN IF r.st.err \/ r.st.abort
                 THEN [r.st EXCEPT !.ret = NoVal]
                 ELSE [r.st EXCEPT !.map = r.st.map @@ (key :> e), !.ret = id]

\* VisitCommon without the DW_AT_specification check
VisitCommon_AcceptsSpecification(st, d, kind) ==
    LET die == Dies[d] IN
    IF die.declaration THEN [st EXCEPT !.ret = NoVal]
    ELSE IF die.byte_size = NoVal
         THEN [st EXCEPT !.ret = NoVal, !.warn = @ + 1]
    ELSE LET key == <<die.name, die.file, die.line>> IN
         IF key \in DOMAIN st.map
         THEN [st EXCEPT !.ret = st.map[key].data.id]
         ELSE LET id == st.tid + 1
                  row == [id |-> id, file |-> die.file, line |-> die.line,
                          name |-> die.name, size |-> die.byte_size,
                          flags |-> {kind}, has_imprecise |-> FALSE]
                  r == VisitMembers([st EXCEPT !.tid = id], row, die.members,
                                    1, <<>>)
                  e == [data |-> row, members |-> r.members,
                        flattened_layout |-> <<>>, skip_postprocess |-> FALSE]
              IN IF r.st.err \/ r.st.abort
                 THEN [r.st EXCEPT !.ret = NoVal]
                 ELSE [r.st EXCEPT !.map = r.st.map @@ (key :> e), !.ret = id]

VisitCommon(st, d, kind) ==
    LET die == Dies[d] IN
    IF die.declaration THEN [st EXCEPT !.ret = NoVal]
    ELSE IF die.specification THEN [st EXCEPT !.err = TRUE, !.ret = NoVal]
    ELSE IF die.byte_size = NoVal
         THEN [st EXCEPT !.ret = NoVal, !.warn = @ + 1]
    ELSE LET key == <<die.name, die.file, die.line>> IN
         IF key \in DOMAIN st.map
         THEN [st EXCEPT !.ret = st.map[key].data.id]
         ELSE LET id == st.tid + 1
                  row == [id |-> id, file |-> die.file, line |-> die.line,
                          name |-> die.name, size |-> die.byte_size,
                          flags |-> {kind}, has_imprecise |-> FALSE]
                  r == VisitMembers([st EXCEPT !.tid = id], row, die.members,
                                    1, <<>>)
                  e == [data |-> row, members |-> r.members,
                        flattened_layout |-> <<>>, skip_postprocess |-> FALSE]
              IN IF r.st.err \/ r.st.abort
                 THEN [r.st EXCEPT !.ret = NoVal]
                 ELSE [r.st EXCEPT !.map = r.st.map @@ (key :> e), !.ret = id]

(***************************************************************************)
(* The relational store.                                                   *)
(*   struct_type      set of rows (id, file, line, name, size, flags,      *)
(*                    has_imprecise), UNIQUE(name, file, line)             *)
(*   struct_member    set of rows, UNIQUE(owner, name, offset),            *)
(*                    CHECK(owner != nested)                               *)
(*   member_bounds    sequence of rows, the id of a row is its position    *)
(*   subobject_alias  set of pairs <<subobj, alias>>                       *)
(***************************************************************************)
EmptyMap == [k \in {} |-> 0]

\* insert_struct_query_: INSERT ... ON CONFLICT DO NOTHING RETURNING id
\* TRUE when the INSERT finds no row that conflicts with it
StructInsertAccepted(types, row) ==
    ~\E r \in types : r.id = row.id \/ KeyOf(r) = KeyOf(row)

\* select_struct_query_
SelectStructId(types, row) ==
    (CHOOSE r \in types : KeyOf(r) = KeyOf(row)).id

\* InsertStructLayout without the SELECT of the existing id on a conflict
InsertStructLayout_KeepsLocalId(types, row, dups) ==
    IF StructInsertAccepted(types, row)
    THEN [types |-> types \cup {row}, row |-> row, new_entry |-> TRUE,
          dups |-> dups]
    ELSE [types |-> types, row |-> row, new_entry |-> FALSE,
          dups |-> dups + 1]

\* InsertStructLayout counting every call as a duplicate
InsertStructLayout_CountsEveryInsert(types, row, dups) ==
    IF StructInsertAccepted(types, row)
    THEN [types |-> types \cup {row}, row |-> row, new_entry |-> TRUE,
          dups |-> dups + 1]
    ELSE [types |-> types,
          row |-> [row EXCEPT !.id = SelectStructId(types, row)],
          new_entry |-> FALSE, dups |-> dups + 1]

\* InsertStructLayout: returns the table, the row with its id fixed up,
\* new_entry and the dup_structs statistic
InsertStructLayout(types, row, dups) ==
    IF StructInsertAccepted(types, row)
    THEN [types |-> types \cup {row}, row |-> row, new_entry |-> TRUE,
          dups |-> dups]
    ELSE [types |-> types,
          row |-> [row EXCEPT !.id = SelectStructId(types, row)],
          new_entry |-> FALSE, dups |-> dups + 1]

\* insert_member_query_: UNIQUE(owner, name, offset) or PRIMARY KEY conflict
MemberConflict(members, m) ==
    \E r \in members :
        \/ r.id = m.id
        \/ r.owner = m.owner /\ r.name = m.name /\ r.byte_offset = m.byte_offset

\* CHECK(owner != nested); a NULL nested passes the check
MemberCheckFails(m) == m.nested # NoVal /\ m.owner = m.nested

\* InsertStructMember: returns the table and the row with its id fixed up
InsertStructMember(members, m) ==
    IF ~MemberConflict(members, m)
    THEN [members |-> members \cup {m}, row |-> m]
    ELSE LET found == {r \in members : r.owner = m.owner /\ r.name = m.name
                                        /\ r.byte_offset = m.byte_offset}
         IN [members |-> members,
             row |-> IF found = {} THEN m
                     ELSE [m EXCEPT !.id = (CHOOSE r \in found : TRUE).id]]

\* EndUnit without the remap_id fix-up of nested
RemapNested_NoFixup(remap, nested) == nested

\* the nested id after the remap_id lookup of EndUnit
RemapNested(remap, nested) ==
    IF nested \in DOMAIN remap THEN remap[nested] ELSE nested

(***************************************************************************)
(* EndUnit, transaction 1.  First loop: the struct layouts.                *)
(* acc = [types, map, remap, entry_by_id, dups]                            *)
(***************************************************************************)
RECURSIVE InsertLayouts(_, _)
InsertLayouts(keys, acc) ==
    IF keys = {} THEN acc
    ELSE LET key == CHOOSE k \in keys : TRUE
             entry == acc.map[key]
             local_id == entry.data.id
             r == InsertStructLayout(acc.types, entry.data, acc.dups)
             entry1 == [entry EXCEPT !.data = r.row,
                                     !.skip_postprocess =
                                         IF r.new_entry THEN @ ELSE TRUE]
         IN InsertLayouts(keys \ {key},
                [types |-> r.types,
                 map |-> [acc.map EXCEPT ![key] = entry1],
                 remap |-> IF r.new_entry THEN acc.remap
                           ELSE acc.remap @@ (local_id :> r.row.id),
                 entry_by_id |-> acc.entry_by_id @@ (r.row.id :> key),
                 dups |-> r.dups])

(***************************************************************************)
(* EndUnit, transaction 1.  Second loop: the members of every entry.       *)
(* acc = [members, rows, err]: the struct_member table, the entry's        *)
(* member rows as rewritten in memory, a constraint failure.               *)
(***************************************************************************)
RECURSIVE InsertMembers(_, _, _, _, _)
InsertMembers(mrows, i, owner, remap, acc) ==
    IF i > Len(mrows) \/ acc.err THEN acc
    ELSE LET m == [mrows[i] EXCEPT !.owner = owner,
                                   !.nested = IF @ # NoVal
                                              THEN RemapNested(remap, @)
                                              ELSE @]
         IN IF MemberCheckFails(m)
            THEN [acc EXCEPT !.err = TRUE,
                             !.rows = @ \o <<m>> \o SubSeq(mrows, i + 1, Len(mrows))]
            ELSE LET r == InsertStructMember(acc.members, m)
                 IN InsertMembers(mrows, i + 1, owner, remap,
                        [members |-> r.members,
                         rows |-> Append(acc.rows, r.row),
                         err |-> FALSE])

RECURSIVE InsertAllMembers(_, _, _)
\* acc = [members, map, err]
InsertAllMembers(keys, remap, acc) ==
    IF keys = {} \/ acc.err THEN acc
    ELSE LET key == CHOOSE k \in keys : TRUE
             entry == acc.map[key]
             r == InsertMembers(entry.members, 1, entry.data.id, remap,
                                [members |-> acc.members, rows |-> <<>>,
                                 err |-> FALSE])
         IN InsertAllMembers(keys \ {key}, remap,
                [members |-> r.members,
                 map |-> [acc.map EXCEPT ![key].members = r.rows],
                 err |-> r.err])

(***************************************************************************)
(* FindSubobjectCapabilities / FlattenedLayout.                            *)
(* map is struct_type_map_, whose entries entry_by_id points to; the rows  *)
(* are pushed on the flattened_layout of `entry`, the entry the caller     *)
(* passed, whose id is owner.  The operator returns the rows pushed while  *)
(* the members of curr from the i-th on are walked.                        *)
(***************************************************************************)
Sep == <<":", ":">>

\* std::string::substr(pos): the characters from position pos (0-based) on
Substr(str, pos) == SubSeq(str, pos + 1, Len(str))

\* req_length = m.byte_size + (m.bit_size ? 1 : 0), bit_size an optional
ReqLength(m) == m.byte_size + (IF m.bit_size # NoVal THEN 1 ELSE 0)

MemberBoundsRow(owner, m, offset, prefix) ==
    LET row_offset == offset + m.byte_offset
        req_length == ReqLength(m)
        range == FindRepresentableRange(row_offset, req_length)
        base == range[1]
        length == range[2]
    IN [owner |-> owner, member |-> m.id, name |-> prefix \o Sep \o m.name,
        offset |-> row_offset, base |-> base, top |-> base + length,
        is_imprecise |-> (row_offset # base \/ length # req_length)]

\* the loop that merges nested.flattened_layout into entry.flattened_layout:
\* each row is pushed as it is, the offset and name fix-ups are applied to
\* flat_curr, a copy of the pushed row
MergeNested(nested_layout, offset, prefix, nested_name) == nested_layout

RECURSIVE FlattenedLayout(_, _, _, _, _, _, _)
FlattenedLayout(map, entry_by_id, owner, curr, offset, prefix, i) ==
    IF i > Len(curr.members) THEN <<>>
    ELSE LET m == curr.members[i]
             mb_row == MemberBoundsRow(owner, m, offset, prefix)
             expansion ==
                 IF m.nested # NoVal /\ m.nested \in DOMAIN entry_by_id
                 THEN LET nested == map[entry_by_id[m.nested]]
                          first == IF nested.flattened_layout = <<>>
                                   THEN FlattenedLayout(map, entry_by_id, owner,
                                            nested, 0, nested.data.name, 1)
                                   ELSE <<>>
                      IN first \o MergeNested(nested.flattened_layout, offset,
                                              prefix, nested.data.name)
                 ELSE <<>>
         IN expansion \o <<mb_row>>
            \o FlattenedLayout(map, entry_by_id, owner, curr, offset, prefix, i + 1)

\* FindSubobjectCapabilities(entry_by_id, entry): the entry after the call.
\* An imprecise row leaves entry.data.has_imprecise as it is (line 648 is an
\* expression statement).
FindSubobjectCapabilities(map, entry_by_id, entry) ==
    IF entry.flattened_layout # <<>> THEN entry
    ELSE [entry EXCEPT !.flattened_layout =
              FlattenedLayout(map, entry_by_id, entry.data.id, entry, 0,
                              entry.data.name, 1)]

\* the loop `for (auto p : struct_type_map_)` of EndUnit: p is a copy of the
\* map's pair, FindSubobjectCapabilities fills the copy.  The result maps
\* the key of every entry not skipped to the copy p.second after the call.
PostprocessCopies(map, entry_by_id) ==
    [key \in {k \in DOMAIN map : ~map[k].skip_postprocess} |->
        FindSubobjectCapabilities(map, entry_by_id, map[key])]

(***************************************************************************)
(* The alias_bounds view and find_imprecise_alias_query_.                  *)
(***************************************************************************)
\* SQLite LIKE folds the case of ASCII letters
LowerCase(c) ==
    CASE c = "A" -> "a" [] c = "B" -> "b" [] c = "I" -> "i"
      [] c = "O" -> "o" [] c = "S" -> "s" [] OTHER -> c

\* str LIKE pattern: '%' matches any run of characters, '_' any one
RECURSIVE Like(_, _)
Like(str, pattern) ==
    IF pattern = <<>> THEN str = <<>>
    ELSE IF Head(pattern) = "%"
         THEN \E k \in 0..Len(str) : Like(Substr(str, k), Tail(pattern))
         ELSE /\ str # <<>>
              /\ \/ Head(pattern) = "_"
                 \/ LowerCase(Head(str)) = LowerCase(Head(pattern))
              /\ Like(Tail(str), Tail(pattern))

\* IIF(x, 1, 0): NULL and 0 are false
IIF(x, a, b) == IF x # NoVal /\ x # 0 THEN a ELSE b

Max(a, b) == IF a > b THEN a ELSE b
Min(a, b) == IF a < b THEN a ELSE b

\* the view without its two NOT LIKE conditions
alias_bounds_WithoutNameFilter(bounds, members) ==
    {[owner |-> bounds[i].owner, subobj_id |-> i, alias_id |-> j] :
        <<i, j>> \in {ij \in (DOMAIN bounds) \X (DOMAIN bounds) :
            LET mb == bounds[ij[1]]
                alb == bounds[ij[2]]
            IN /\ mb.owner = alb.owner
               /\ ij[1] # ij[2]
               /\ \E alm \in members :
                    /\ alb.member = alm.id
                    /\ Max(alb.offset, mb.base)
                         < Min(alb.offset + alm.byte_size + IIF(alm.bit_size, 1, 0),
                               mb.top)}}

\* the rows (owner, subobj_id, alias_id) of the view
alias_bounds(bounds, members) ==
    {[owner |-> bounds[i].owner, subobj_id |-> i, alias_id |-> j] :
        <<i, j>> \in {ij \in (DOMAIN bounds) \X (DOMAIN bounds) :
            LET mb == bounds[ij[1]]
                alb == bounds[ij[2]]
            IN /\ mb.owner = alb.owner
               /\ ij[1] # ij[2]
               /\ \E alm \in members :
                    /\ alb.member = alm.id
                    /\ Max(alb.offset, mb.base)
                         < Min(alb.offset + alm.byte_size + IIF(alm.bit_size, 1, 0),
                               mb.top)
               /\ ~Like(mb.name, alb.name \o <<"%">>)
               /\ ~Like(alb.name, mb.name \o <<"%">>)}}

\* INSERT INTO subobject_alias SELECT ... FROM alias_bounds WHERE owner = @owner
find_imprecise_alias_query(bounds, members, owner) ==
    {<<ab.subobj_id, ab.alias_id>> :
        ab \in {x \in alias_bounds(bounds, members) : x.owner = owner}}

(***************************************************************************)
(* The projection views layout_member and type_layout over struct_type and *)
(* struct_member: one row per member path of a type, the members of a      *)
(* member that is itself a record listed under its path.                   *)
(***************************************************************************)
\* depth of by-value nesting the views are expanded to
MaxNesting == 3

\* the member is a flexible or variable-length array
IsVla(m) == m.is_array /\ (m.array_items = NoVal \/ m.array_items = 0)

RECURSIVE layout_member(_, _, _, _)
layout_member(members, owner, prefix, depth) ==
    IF depth = 0 THEN {}
    ELSE UNION {
           {[name |-> prefix \o Sep \o m.name, member |-> m.id,
             is_vla |-> IsVla(m)]}
           \cup (IF m.nested # NoVal
                 THEN layout_member(members, m.nested,
                                    prefix \o Sep \o m.name, depth - 1)
                 ELSE {}) :
           m \in {x \in members : x.owner = owner}}

\* has_vla of the type_layout row of the type t
type_layout_has_vla(members, t) ==
    \E row \in layout_member(members, t.id, t.name, MaxNesting) : row.is_vla

(***************************************************************************)
(* EndUnit, transaction 2: the member bounds and the alias pairs of every  *)
(* entry not skipped.  acc = [bounds, alias]                               *)
(***************************************************************************)
RECURSIVE InsertBoundsAndAliases(_, _, _, _)
InsertBoundsAndAliases(keys, map, members, acc) ==
    IF keys = {} THEN acc
    ELSE LET key == CHOOSE k \in keys : TRUE
             entry == map[key]
             bounds == acc.bounds \o entry.flattened_layout
         IN InsertBoundsAndAliases(keys \ {key}, map, members,
                IF entry.skip_postprocess THEN acc
                ELSE [bounds |-> bounds,
                      alias |-> acc.alias \cup
                          find_imprecise_alias_query(bounds, members,
                                                     entry.data.id)])

(***************************************************************************)
(* State.                                                                  *)
(***************************************************************************)
VARIABLES
    pc,               \* per scraper: "idle", "unit" (between BeginUnit and
                      \* EndUnit), "flushed" (transaction 1 committed),
                      \* "flattened" (layouts computed), "failed" (threw),
                      \* "aborted" (an assert() failed: the process is gone)
    struct_type_map,  \* per scraper: struct_type_map_
    nvisits,          \* per scraper: record DIEs visited in the current unit
    units,            \* compilation units entered so far, by all scrapers
    struct_id,        \* the atomic counter of GetStructTypeId
    member_id,        \* the atomic counter of GetStructMemberId
    dup_structs,      \* per scraper: stats_.dup_structs
    copies,           \* per scraper: the copies p.second of EndUnit's
                      \* post-processing loop, after FindSubobjectCapabilities
    flushed,          \* per scraper: the local ids of the rows it handed to
                      \* InsertStructLayout (history)
    warnings,         \* per scraper: LOG(kWarn) messages emitted (history)
    struct_type, struct_member, member_bounds, subobject_alias,
    task,             \* per task: position of the lambda schedule() handed to
                      \* the pool: "new" (not scheduled), "queued", "started",
                      \* "inited" (initSchema returned), "finished", "dropped"
    queue,            \* the runnables QThreadPool holds for a free thread
    future,           \* per task: state of the future schedule() returned
    stop_requested,   \* stop_state_
    calls,            \* per task: the scraper calls made, with their outcome
    nresolved,        \* per task: times the promise was given a result
    level_,           \* Logger::level_ of the global logger
    sinks_,           \* Logger::sinks_ (the sinks in the order of AddSink)
    mutex_,           \* Logger::mutex_: the thread that holds it, 0 if free
    emit,             \* per thread: its position in Logger::Emit, the
                      \* message and the index of the loop over sinks_
    out,              \* the calls sink->Emit(msg) made, in order
    calllog,          \* the calls AddSink, SetLevel and Emit in the order
                      \* they took the mutex (history)
    returned,         \* per scraper thread: the values GetStructTypeId and
                      \* GetStructMemberId returned to it, in order (history)
    waiter,           \* the thread that calls ThreadPool::wait: "idle",
                      \* "waiting" (inside pool_.waitForDone()), "returned"
    global_logger,    \* the global logger exists (global_logger != nullptr)
    got,              \* per thread: the function that last returned it the
                      \* global logger, "Get" or "Default" ("none": neither)
    log_handle        \* per thread: the LogAs handle of the LOG statement it
                      \* executes, and the statements and messages so far

scraper_vars == <<pc, struct_type_map, nvisits, units, struct_id, member_id,
                  dup_structs, copies, flushed, warnings>>
store_vars == <<struct_type, struct_member, member_bounds, subobject_alias>>
pool_vars == <<task, queue, future, stop_requested, calls, nresolved>>
logger_vars == <<global_logger, got, log_handle>>
log_vars == <<level_, sinks_, mutex_, emit, out, calllog, logger_vars>>
id_vars == <<returned>>
wait_vars == <<waiter>>
vars == <<scraper_vars, store_vars, pool_vars, log_vars, id_vars, wait_vars>>

\* tasks handed to ThreadPool::schedule
NumTasks == 4
\* the `workers` argument of ThreadPool's constructor
Workers == 2

Tasks == 1..NumTasks

\* the scraper objects: those of Scrapers, and the one each task of the pool
\* owns (the task t runs the scraper t)
Jobs == Scrapers \cup Tasks

ScraperInit ==
    /\ pc = [s \in Jobs |-> "idle"]
    /\ struct_type_map = [s \in Jobs |-> EmptyMap]
    /\ nvisits = [s \in Jobs |-> 0]
    /\ units = 0
    /\ struct_id = 1
    /\ member_id = 1
    /\ dup_structs = [s \in Jobs |-> 0]
    /\ copies = [s \in Jobs |-> EmptyMap]
    /\ flushed = [s \in Jobs |-> {}]
    /\ warnings = [s \in Jobs |-> 0]

StoreInit ==
    /\ struct_type = {}
    /\ struct_member = {}
    /\ member_bounds = <<>>
    /\ subobject_alias = {}

PoolInit ==
    /\ task = [t \in Tasks |-> "new"]
    /\ queue = <<>>
    /\ future = [t \in Tasks |-> "none"]
    /\ stop_requested = FALSE
    /\ calls = [t \in Tasks |-> <<>>]
    /\ nresolved = [t \in Tasks |-> 0]

\* enum LogLevel
kError == 0
kWarn == 1
kInfo == 2
kDebug == 3
kTrace == 4
LogLevels == {kError, kWarn, kInfo, kDebug, kTrace}

\* threads that use the global logger
NumLogThreads == 2
LogThreads == 1..NumLogThreads

\* Logger::Logger(LogLevel level) : level_{kInfo}
LoggerLevel(level) == kInfo

\* the sink Logger::Default attaches (the sinks of AddSink are named 1, 2..)
ConsoleSink == 0

\* a thread that executes no LOG statement: no handle (macro: the handle is
\* the one of a LOG statement), the statements it has executed (stmts) and
\* the messages its handles have given Logger::Emit
NoHandle == [pc |-> "none", macro |-> FALSE, level |-> NoVal,
             consumed_flag_ |-> FALSE, stream_ |-> <<>>,
             stmts |-> <<>>, emitted |-> <<>>]

\* the global logger as Logger::Get() creates it: new Logger(kInfo), no sink;
\* every thread has its reference from Get()
LogInit ==
    /\ level_ = LoggerLevel(kInfo)
    /\ sinks_ = <<>>
    /\ mutex_ = 0
    /\ emit = [t \in LogThreads |-> [pc |-> "idle", msg |-> NoVal,
                                      level |-> NoVal, idx |-> 0]]
    /\ out = <<>>
    /\ calllog = <<>>
    /\ global_logger = TRUE
    /\ got = [t \in LogThreads |-> "Get"]
    /\ log_handle = [t \in LogThreads |-> NoHandle]

\* no call of GetStructTypeId or GetStructMemberId has returned yet
IdInit ==
    returned = [s \in Scrapers |-> [type |-> <<>>, member |-> <<>>]]

\* wait() has not been called
WaitInit == waiter = "idle"

Init == ScraperInit /\ StoreInit /\ PoolInit /\ LogInit /\ IdInit /\ WaitInit

(***************************************************************************)
(* Operations of a scraper.                                                *)
(***************************************************************************)
\* BeginUnit: throws when the unit DIE has no readable DW_AT_name
BeginUnit(s) ==
    /\ pc[s] = "idle"
    /\ units < MaxUnits
    /\ \E has_name \in BOOLEAN :
         pc' = [pc EXCEPT ![s] = IF has_name THEN "unit" ELSE "failed"]
    /\ units' = units + 1
    /\ nvisits' = [nvisits EXCEPT ![s] = 0]
    /\ UNCHANGED <<struct_type_map, struct_id, member_id, dup_structs, copies,
                   flushed, warnings, store_vars, pool_vars, log_vars, id_vars,
                   wait_vars>>

\* the target of the binary a job scans: the odd jobs scan little-endian
\* binaries, the even ones big-endian binaries
IsLittleEndian(s) == s % 2 = 1

\* what a visit of the scraper s starts from
VisitState(s, ndebug) ==
    [map |-> struct_type_map[s], tid |-> struct_id, mid |-> member_id,
     ret |-> NoVal, err |-> FALSE, warn |-> warnings[s],
     le |-> IsLittleEndian(s), ndebug |-> ndebug, abort |-> FALSE]

\* visit_structure_type / visit_class_type / visit_union_type on the record
\* DIE d of the current unit.  A failed assert() aborts the process in a
\* build without NDEBUG.
VisitRecord(s, d) ==
    /\ pc[s] = "unit"
    /\ nvisits[s] < MaxVisits
    /\ \E ndebug \in BOOLEAN :
         LET st == VisitCommon(VisitState(s, ndebug), d, Dies[d].kind)
         IN /\ struct_type_map' = [struct_type_map EXCEPT ![s] = st.map]
            /\ struct_id' = st.tid
            /\ member_id' = st.mid
            /\ warnings' = [warnings EXCEPT ![s] = st.warn]
            /\ pc' = [pc EXCEPT ![s] = IF st.abort THEN "aborted"
                                       ELSE IF st.err THEN "failed" ELSE @]
    /\ nvisits' = [nvisits EXCEPT ![s] = @ + 1]
    /\ UNCHANGED <<units, dup_structs, copies, flushed, store_vars, pool_vars, log_vars, id_vars,
                   wait_vars>>

\* EndUnit, first transaction (types, then members); a constraint failure
\* rolls the transaction back and propagates
EndUnitTypesAndMembers(s) ==
    /\ pc[s] = "unit"
    /\ LET map == struct_type_map[s]
           t == InsertLayouts(DOMAIN map,
                    [types |-> struct_type, map |-> map, remap |-> EmptyMap,
                     entry_by_id |-> EmptyMap, dups |-> dup_structs[s]])
           m == InsertAllMembers(DOMAIN map, t.remap,
                    [members |-> struct_member, map |-> t.map, err |-> FALSE])
       IN /\ struct_type_map' = [struct_type_map EXCEPT ![s] = m.map]
          /\ dup_structs' = [dup_structs EXCEPT ![s] = t.dups]
          /\ flushed' = [flushed EXCEPT ![s] =
                            @ \cup {map[k].data.id : k \in DOMAIN map}]
          /\ IF m.err
             THEN /\ pc' = [pc EXCEPT ![s] = "failed"]
                  /\ UNCHANGED <<struct_type, struct_member>>
             ELSE /\ pc' = [pc EXCEPT ![s] = "flushed"]
                  /\ struct_type' = t.types
                  /\ struct_member' = m.members
    /\ UNCHANGED <<nvisits, units, struct_id, member_id, copies, warnings,
                   member_bounds, subobject_alias, pool_vars, log_vars, id_vars,
                   wait_vars>>

\* entry_by_id of EndUnit: global id -> entry (named by its key)
EntryById(map) ==
    [id \in {map[k].data.id : k \in DOMAIN map} |->
        CHOOSE k \in DOMAIN map : map[k].data.id = id]

\* EndUnit, the post-processing loop between the two transactions
EndUnitFlatten(s) ==
    /\ pc[s] = "flushed"
    /\ copies' = [copies EXCEPT ![s] =
                     PostprocessCopies(struct_type_map[s],
                                       EntryById(struct_type_map[s]))]
    /\ pc' = [pc EXCEPT ![s] = "flattened"]
    /\ UNCHANGED <<struct_type_map, nvisits, units, struct_id, member_id,
                   dup_structs, flushed, warnings, store_vars, pool_vars, log_vars, id_vars,
                   wait_vars>>

\* EndUnit, second transaction (bounds and alias pairs), then
\* struct_type_map_.clear()
EndUnitBoundsAndAliases(s) ==
    /\ pc[s] = "flattened"
    /\ LET r == InsertBoundsAndAliases(DOMAIN struct_type_map[s],
                    struct_type_map[s], struct_member,
                    [bounds |-> member_bounds, alias |-> subobject_alias])
       IN /\ member_bounds' = r.bounds
          /\ subobject_alias' = r.alias
    /\ struct_type_map' = [struct_type_map EXCEPT ![s] = EmptyMap]
    /\ copies' = [copies EXCEPT ![s] = EmptyMap]
    /\ pc' = [pc EXCEPT ![s] = "idle"]
    /\ UNCHANGED <<nvisits, units, struct_id, member_id, dup_structs, flushed,
                   warnings, struct_type, struct_member, pool_vars, log_vars, id_vars,
                   wait_vars>>

Next ==
    \/ \E s \in Scrapers : BeginUnit(s)
    \/ \E s \in Scrapers, d \in TopDies : VisitRecord(s, d)
    \/ \E s \in Scrapers : EndUnitTypesAndMembers(s)
    \/ \E s \in Scrapers : EndUnitFlatten(s)
    \/ \E s \in Scrapers : EndUnitBoundsAndAliases(s)

Spec == Init /\ [][Next]_vars

(***************************************************************************)
(* ThreadPool (src/pool.hh).  The task of schedule() is the lambda         *)
(*   try { s->initSchema(); s->run(token); p.set_value(s->result()); }     *)
(*   catch (std::exception &) { p.set_exception(...); }                    *)
(* whose two scraper calls return or throw (ok = FALSE).                   *)
(***************************************************************************)
\* threads of the pool that run a task
Active == Cardinality({t \in Tasks : task[t] \in {"started", "inited"}})

InitSchemaOk(t) == \E i \in DOMAIN calls[t] : calls[t][i] = <<"initSchema", TRUE>>
InitSchemaFailed(t) == \E i \in DOMAIN calls[t] : calls[t][i] = <<"initSchema", FALSE>>
RunOk(t) == \E i \in DOMAIN calls[t] : calls[t][i] = <<"run", TRUE>>
RunFailed(t) == \E i \in DOMAIN calls[t] : calls[t][i] = <<"run", FALSE>>
RunCalled(t) == RunOk(t) \/ RunFailed(t)

\* schedule(): the promise and its future are made, pool_.start() runs the
\* task on a free thread or queues it (a thread that finishes a task takes
\* the next queued one itself, so a non-empty queue means no thread is free)
schedule(t) ==
    /\ task[t] = "new"
    /\ future' = [future EXCEPT ![t] = "pending"]
    /\ IF Active < Workers /\ queue = <<>>
       THEN /\ task' = [task EXCEPT ![t] = "started"]
            /\ UNCHANGED queue
       ELSE /\ task' = [task EXCEPT ![t] = "queued"]
            /\ queue' = Append(queue, t)
    /\ UNCHANGED <<stop_requested, calls, nresolved, scraper_vars, store_vars, log_vars, id_vars,
                   wait_vars>>

\* a thread of the pool that became free takes the first queued task
WorkerTakesTask ==
    /\ queue # <<>>
    /\ Active < Workers
    /\ task' = [task EXCEPT ![Head(queue)] = "started"]
    /\ queue' = Tail(queue)
    /\ UNCHANGED <<future, stop_requested, calls, nresolved, scraper_vars,
                   store_vars, log_vars, id_vars, wait_vars>>

\* the task calls initSchema and goes on to run even when initSchema threw
TaskInitSchema_IgnoresFailure(t, ok) ==
    /\ task[t] = "started"
    /\ calls' = [calls EXCEPT ![t] = Append(@, <<"initSchema", ok>>)]
    /\ task' = [task EXCEPT ![t] = "inited"]
    /\ UNCHANGED <<future, nresolved>>
    /\ UNCHANGED <<queue, stop_requested, scraper_vars, store_vars, log_vars, id_vars,
                   wait_vars>>

\* the task calls s->initSchema(); an exception is caught and set on the promise
TaskInitSchema(t, ok) ==
    /\ task[t] = "started"
    /\ calls' = [calls EXCEPT ![t] = Append(@, <<"initSchema", ok>>)]
    /\ IF ok
       THEN /\ task' = [task EXCEPT ![t] = "inited"]
            /\ UNCHANGED <<future, nresolved>>
       ELSE /\ task' = [task EXCEPT ![t] = "finished"]
            /\ future' = [future EXCEPT ![t] = "error"]
            /\ nresolved' = [nresolved EXCEPT ![t] = @ + 1]
    /\ UNCHANGED <<queue, stop_requested, scraper_vars, store_vars, log_vars, id_vars,
                   wait_vars>>

\* the task calls s->run(token), then p.set_value(s->result()); an exception
\* is caught and set on the promise
TaskRun(t, ok) ==
    /\ task[t] = "inited"
    /\ calls' = [calls EXCEPT ![t] = Append(@, <<"run", ok>>)]
    /\ task' = [task EXCEPT ![t] = "finished"]
    /\ future' = [future EXCEPT ![t] = IF ok THEN "value" ELSE "error"]
    /\ nresolved' = [nresolved EXCEPT ![t] = @ + 1]
    /\ UNCHANGED <<queue, stop_requested, scraper_vars, store_vars, log_vars, id_vars,
                   wait_vars>>

\* cancel() without pool_.clear()
cancel_WithoutClear ==
    /\ ~stop_requested
    /\ stop_requested' = TRUE
    /\ UNCHANGED <<task, future, queue, calls, nresolved, scraper_vars,
                   store_vars, log_vars, id_vars, wait_vars>>

\* cancel(): pool_.clear() destroys the queued tasks, and with each its
\* promise (the future gets std::future_errc::broken_promise), then
\* stop_state_.request_stop()
cancel ==
    /\ queue # <<>> \/ ~stop_requested
    /\ task' = [t \in Tasks |->
                  IF \E i \in DOMAIN queue : queue[i] = t THEN "dropped"
                  ELSE task[t]]
    /\ future' = [t \in Tasks |->
                    IF \E i \in DOMAIN queue : queue[i] = t THEN "broken"
                    ELSE future[t]]
    /\ queue' = <<>>
    /\ stop_requested' = TRUE
    /\ UNCHANGED <<calls, nresolved, scraper_vars, store_vars, log_vars, id_vars,
                   wait_vars>>

NextPool ==
    \/ \E t \in Tasks : schedule(t)
    \/ WorkerTakesTask
    \/ \E t \in Tasks, ok \in BOOLEAN : TaskInitSchema(t, ok)
    \/ \E t \in Tasks, ok \in BOOLEAN : TaskRun(t, ok)
    \/ cancel

\* the threads of the pool keep running: a thread that holds a task makes
\* its calls, a free thread takes a queued task
PoolFairness ==
    /\ WF_vars(WorkerTakesTask)
    /\ \A t \in Tasks :
         /\ WF_vars(\E ok \in BOOLEAN : TaskInitSchema(t, ok))
         /\ WF_vars(\E ok \in BOOLEAN : TaskRun(t, ok))

SpecPool == Init /\ [][NextPool]_vars /\ PoolFairness

(***************************************************************************)
(* ThreadPool::wait.  pool_.waitForDone() returns when no runnable is       *)
(* queued and no thread of the pool runs one.                               *)
(***************************************************************************)
\* a thread calls wait()
wait_call ==
    /\ waiter \in {"idle", "returned"}
    /\ waiter' = "waiting"
    /\ UNCHANGED <<scraper_vars, store_vars, pool_vars, log_vars, id_vars>>

\* waitForDone() that only waits for the queue to drain
wait_return_IgnoresRunning ==
    /\ waiter = "waiting"
    /\ queue = <<>>
    /\ waiter' = "returned"
    /\ UNCHANGED <<scraper_vars, store_vars, pool_vars, log_vars, id_vars>>

\* pool_.waitForDone() returns
wait_return ==
    /\ waiter = "waiting"
    /\ queue = <<>>
    /\ Active = 0
    /\ waiter' = "returned"
    /\ UNCHANGED <<scraper_vars, store_vars, pool_vars, log_vars, id_vars>>

NextWait ==
    \/ NextPool
    \/ wait_call
    \/ wait_return

SpecWait == Init /\ [][NextWait]_vars /\ PoolFairness

(***************************************************************************)
(* The alias query on its own: find_imprecise_alias_query_ is run on the   *)
(* tables whatever rows they hold.  The tables are drawn from member rows  *)
(* of two owners and the bounds rows FlattenedLayout builds for them.      *)
(***************************************************************************)
\* rows of member_bounds at the start
MaxAliasRows == 2

AliasMember(id, owner, name, byte_size, bit_size, byte_offset) ==
    [id |-> id, owner |-> owner, nested |-> NoVal, name |-> name,
     byte_size |-> byte_size, bit_size |-> bit_size,
     byte_offset |-> byte_offset, bit_offset |-> NoVal]

AliasMembers ==
    {AliasMember(2, 2, <<"a">>, 4, NoVal, 0),
     AliasMember(3, 2, <<"a", "b">>, 4, NoVal, 0),
     AliasMember(4, 2, <<"A">>, 4, NoVal, 2),
     AliasMember(5, 2, <<"f">>, 4, 3, 4),
     AliasMember(6, 2, <<"c">>, 4, NoVal, 8),
     AliasMember(7, 3, <<"x">>, 2, 0, 0),
     AliasMember(8, 3, <<"_">>, 4, NoVal, 0),
     AliasMember(9, 3, <<"%">>, 4, NoVal, 0)}

AliasOwners == {2, 3}
AliasPrefixes == {<<"S">>, <<"S", ":", ":", "a">>}

AliasBoundsRows ==
    {MemberBoundsRow(o, m, 0, prefix) :
        o \in AliasOwners, m \in AliasMembers, prefix \in AliasPrefixes}

RECURSIVE SeqsUpTo(_, _)
SeqsUpTo(S, n) ==
    IF n = 0 THEN {<<>>}
    ELSE LET shorter == SeqsUpTo(S, n - 1)
         IN shorter \cup {Append(q, x) : q \in shorter, x \in S}

InitAlias ==
    /\ ScraperInit
    /\ PoolInit
    /\ LogInit
    /\ IdInit
    /\ WaitInit
    /\ struct_type = {}
    /\ struct_member = AliasMembers
    /\ member_bounds \in SeqsUpTo(AliasBoundsRows, MaxAliasRows)
    /\ subobject_alias = {}

\* find_imprecise.Bind(owner); find_imprecise.Run(): a pair that is already
\* in the table violates the primary key and the statement throws
RunAliasQuery(owner) ==
    /\ LET pairs == find_imprecise_alias_query(member_bounds, struct_member, owner)
       IN /\ pairs \cap subobject_alias = {}
          /\ subobject_alias' = subobject_alias \cup pairs
    /\ UNCHANGED <<struct_type, struct_member, member_bounds, scraper_vars,
                   pool_vars, log_vars, id_vars, wait_vars>>

NextAlias == \E owner \in AliasOwners : RunAliasQuery(owner)

SpecAlias == InitAlias /\ [][NextAlias]_vars

(***************************************************************************)
(* The pool running scraper jobs.  The task t owns the scraper t; its      *)
(* s->run(token) walks the compilation units of the source: at every unit  *)
(* boundary it consults the stop token and returns when a stop was         *)
(* requested (or the source has no more units), otherwise it processes the *)
(* next unit with BeginUnit, the visits and EndUnit.  The token is a       *)
(* std::stop_token of stop_state_: it reads stop_requested.  BeginUnit     *)
(* only touches the scraper's own state, so the read of the token and the  *)
(* BeginUnit that follows it are one step.                                 *)
(***************************************************************************)
\* the record DIEs of the units the jobs of the pool walk
RunDies == {2}

\* the caller hands its jobs to schedule() one after the other
ScheduleNext(t) ==
    /\ \A u \in Tasks : u < t => task[u] # "new"
    /\ schedule(t)

\* run(): the token is not signalled and another unit is entered
RunBeginUnit(t) ==
    /\ task[t] = "inited"
    /\ ~stop_requested
    /\ BeginUnit(t)

\* run(): a record DIE of the unit in progress is visited
RunVisit(t, d) ==
    /\ task[t] = "inited"
    /\ VisitRecord(t, d)

\* run(): EndUnit of the unit in progress, one transaction at a time
RunEndUnit(t) ==
    /\ task[t] = "inited"
    /\ \/ EndUnitTypesAndMembers(t)
       \/ EndUnitFlatten(t)
       \/ EndUnitBoundsAndAliases(t)

\* run() returns at a unit boundary (stop requested or no unit left) and the
\* task sets the value; or a call of the unit threw and the task sets the
\* exception
RunEnds(t) ==
    \/ pc[t] = "idle" /\ TaskRun(t, TRUE)
    \/ pc[t] = "failed" /\ TaskRun(t, FALSE)

NextRun ==
    \/ \E t \in Tasks : ScheduleNext(t)
    \/ WorkerTakesTask
    \/ \E t \in Tasks, ok \in BOOLEAN : TaskInitSchema(t, ok)
    \/ \E t \in Tasks : RunBeginUnit(t)
    \/ \E t \in Tasks, d \in RunDies : RunVisit(t, d)
    \/ \E t \in Tasks : RunEndUnit(t)
    \/ \E t \in Tasks : RunEnds(t)
    \/ cancel

SpecRun == Init /\ [][NextRun]_vars

(***************************************************************************)
(* One job of the pool walking units that hold the irregular record DIEs:  *)
(* records without DW_AT_byte_size, with DW_AT_specification, a record     *)
(* whose member has a type without size, and two DIEs of one key.          *)
(***************************************************************************)
VisitDies == {1, 2, 5, 6, 7, 8, 9, 10, 11, 12}

\* the job of this specification
VisitJob == 1

NextVisit ==
    \/ ScheduleNext(VisitJob)
    \/ \E ok \in BOOLEAN : TaskInitSchema(VisitJob, ok)
    \/ RunBeginUnit(VisitJob)
    \/ \E d \in VisitDies : RunVisit(VisitJob, d)
    \/ RunEndUnit(VisitJob)
    \/ RunEnds(VisitJob)

SpecVisit == Init /\ [][NextVisit]_vars

(***************************************************************************)
(* Logger (log.cc).  AddSink, SetLevel and Emit take mutex_ for the whole  *)
(* call; Emit is modelled step by step (lock, level test, one step per     *)
(* sink, unlock) so that calls of several threads can interleave wherever  *)
(* the mutex lets them.                                                    *)
(***************************************************************************)
\* sinks attached, messages emitted and SetLevel calls made in a run
MaxSinks == 2
MaxMsgs == 2
MaxSetLevels == 1

CountOp(op) ==
    Cardinality({i \in DOMAIN calllog : calllog[i].op = op})

\* Logger::AddSink: the sink (a new object, named by its rank) is appended
AddSink(t) ==
    /\ emit[t].pc = "idle"
    /\ mutex_ = 0
    /\ Len(sinks_) < MaxSinks
    /\ sinks_' = Append(sinks_, Len(sinks_) + 1)
    /\ calllog' = Append(calllog, [op |-> "AddSink", arg |-> Len(sinks_) + 1,
                                   msg |-> NoVal])
    /\ UNCHANGED <<level_, mutex_, emit, out, logger_vars, scraper_vars,
                   store_vars,
                   pool_vars, id_vars, wait_vars>>

\* Logger::SetLevel
SetLevel(t, level) ==
    /\ emit[t].pc = "idle"
    /\ mutex_ = 0
    /\ CountOp("SetLevel") < MaxSetLevels
    /\ level_' = level
    /\ calllog' = Append(calllog, [op |-> "SetLevel", arg |-> level,
                                   msg |-> NoVal])
    /\ UNCHANGED <<sinks_, mutex_, emit, out, logger_vars, scraper_vars,
                   store_vars,
                   pool_vars, id_vars, wait_vars>>

\* Logger::Emit entered without taking mutex_
EmitLock_WithoutMutex(t, level) ==
    /\ emit[t].pc = "idle"
    /\ CountOp("Emit") < MaxMsgs
    /\ emit' = [emit EXCEPT ![t] = [pc |-> "check", msg |-> CountOp("Emit") + 1,
                                    level |-> level, idx |-> 0]]
    /\ calllog' = Append(calllog, [op |-> "Emit", arg |-> level,
                                   msg |-> CountOp("Emit") + 1])
    /\ UNCHANGED <<level_, sinks_, mutex_, out, logger_vars, scraper_vars,
                   store_vars,
                   pool_vars, id_vars, wait_vars>>

\* Logger::Emit, line 99: the lock is taken; the message gets its number
EmitLock(t, level) ==
    /\ emit[t].pc = "idle"
    /\ mutex_ = 0
    /\ CountOp("Emit") < MaxMsgs
    /\ mutex_' = t
    /\ emit' = [emit EXCEPT ![t] = [pc |-> "check", msg |-> CountOp("Emit") + 1,
                                    level |-> level, idx |-> 0]]
    /\ calllog' = Append(calllog, [op |-> "Emit", arg |-> level,
                                   msg |-> CountOp("Emit") + 1])
    /\ UNCHANGED <<level_, sinks_, out, logger_vars, scraper_vars,
                   store_vars, pool_vars, id_vars,
                   wait_vars>>

\* Logger::Emit, lines 100-101: a message above the filter level is dropped
EmitCheck(t) ==
    /\ emit[t].pc = "check"
    /\ IF emit[t].level > level_
       THEN /\ emit' = [emit EXCEPT ![t].pc = "idle"]
            /\ mutex_' = IF mutex_ = t THEN 0 ELSE mutex_
       ELSE /\ emit' = [emit EXCEPT ![t].pc = "loop", ![t].idx = 1]
            /\ UNCHANGED mutex_
    /\ UNCHANGED <<level_, sinks_, out, calllog, logger_vars, scraper_vars,
                   store_vars,
                   pool_vars, id_vars, wait_vars>>

\* Logger::Emit, lines 102-105: sink->Emit(msg) for the next sink, or the end
\* of the loop and of the call
EmitSink(t) ==
    /\ emit[t].pc = "loop"
    /\ IF emit[t].idx <= Len(sinks_)
       THEN /\ out' = Append(out, [sink |-> sinks_[emit[t].idx],
                                   msg |-> emit[t].msg])
            /\ emit' = [emit EXCEPT ![t].idx = @ + 1]
            /\ UNCHANGED mutex_
       ELSE /\ emit' = [emit EXCEPT ![t].pc = "idle"]
            /\ mutex_' = IF mutex_ = t THEN 0 ELSE mutex_
            /\ UNCHANGED out
    /\ UNCHANGED <<level_, sinks_, calllog, logger_vars, scraper_vars,
                   store_vars,
                   pool_vars, id_vars, wait_vars>>

NextLog ==
    \/ \E t \in LogThreads : AddSink(t)
    \/ \E t \in LogThreads, level \in LogLevels : SetLevel(t, level)
    \/ \E t \in LogThreads, level \in LogLevels : EmitLock(t, level)
    \/ \E t \in LogThreads : EmitCheck(t)
    \/ \E t \in LogThreads : EmitSink(t)

SpecLog == Init /\ [][NextLog]_vars

(***************************************************************************)
(* Logger::Get and Logger::Default (log.cc).  Each runs under               *)
(* global_logger_mutex from its first to its last statement, so a call is   *)
(* one step.  No global logger exists when the program starts; a thread     *)
(* calls AddSink and SetLevel on the reference one of the two gave it.      *)
(***************************************************************************)
\* the program before any call of Get or Default
LogInitNoLogger ==
    /\ level_ = NoVal
    /\ sinks_ = <<>>
    /\ mutex_ = 0
    /\ emit = [t \in LogThreads |-> [pc |-> "idle", msg |-> NoVal,
                                      level |-> NoVal, idx |-> 0]]
    /\ out = <<>>
    /\ calllog = <<>>
    /\ global_logger = FALSE
    /\ got = [t \in LogThreads |-> "none"]
    /\ log_handle = [t \in LogThreads |-> NoHandle]

InitDefault ==
    ScraperInit /\ StoreInit /\ PoolInit /\ LogInitNoLogger /\ IdInit /\ WaitInit

\* Logger::Get: if (!global_logger) global_logger = new Logger(kInfo)
Get(t) ==
    /\ emit[t].pc = "idle"
    /\ IF global_logger
       THEN UNCHANGED <<global_logger, level_, sinks_>>
       ELSE /\ global_logger' = TRUE
            /\ level_' = LoggerLevel(kInfo)
            /\ sinks_' = <<>>
    /\ got' = [got EXCEPT ![t] = "Get"]
    /\ UNCHANGED <<mutex_, emit, out, calllog, log_handle, scraper_vars,
                   store_vars, pool_vars, id_vars, wait_vars>>

\* Logger::Default: if (global_logger) return *global_logger; otherwise a
\* new Logger(kInfo) with a ConsoleLogSink attached
Default(t) ==
    /\ emit[t].pc = "idle"
    /\ IF global_logger
       THEN UNCHANGED <<global_logger, level_, sinks_, calllog>>
       ELSE /\ global_logger' = TRUE
            /\ level_' = LoggerLevel(kInfo)
            /\ sinks_' = <<ConsoleSink>>
            /\ calllog' = Append(calllog, [op |-> "AddSink", arg |-> ConsoleSink,
                                           msg |-> NoVal])
    /\ got' = [got EXCEPT ![t] = "Default"]
    /\ UNCHANGED <<mutex_, emit, out, log_handle, scraper_vars, store_vars,
                   pool_vars, id_vars, wait_vars>>

NextDefault ==
    \/ \E t \in LogThreads : Get(t)
    \/ \E t \in LogThreads : Default(t)
    \/ \E t \in LogThreads : got[t] # "none" /\ AddSink(t)
    \/ \E t \in LogThreads, level \in LogLevels :
          got[t] # "none" /\ SetLevel(t, level)

SpecDefault == InitDefault /\ [][NextDefault]_vars

(***************************************************************************)
(* The LOG(level) << body statement (log.hh) and LogAs (log.cc):            *)
(*   for (auto log_handle = Logger::Get().NewStream(level); !log_handle;)   *)
(*     log_handle.Stream() << body;                                         *)
(* The steps of a thread are the init-statement, each evaluation of the     *)
(* condition, each execution of the loop body and the destructor of the     *)
(* handle, which calls Logger::Emit.                                        *)
(***************************************************************************)
\* the levels and the streamed texts of the LOG statements of the program
StmtLevels == {kInfo, kDebug}
Bodies == {"a", "b"}

\* LOG statements begun so far by the threads 1..n
RECURSIVE StmtsUpTo(_)
StmtsUpTo(n) ==
    IF n = 0 THEN 0 ELSE Len(log_handle[n].stmts) + StmtsUpTo(n - 1)

\* the init-statement: Logger::Get() (which creates the logger if there is
\* none) and NewStream(level), LogAs::LogAs
LogBegin(t, level, body) ==
    /\ log_handle[t].pc = "none"
    /\ emit[t].pc = "idle"
    /\ StmtsUpTo(NumLogThreads) < MaxMsgs
    /\ IF global_logger
       THEN UNCHANGED <<global_logger, level_, sinks_>>
       ELSE /\ global_logger' = TRUE
            /\ level_' = LoggerLevel(kInfo)
            /\ sinks_' = <<>>
    /\ got' = [got EXCEPT ![t] = "Get"]
    /\ log_handle' = [log_handle EXCEPT ![t] =
           [@ EXCEPT !.pc = "cond", !.macro = TRUE, !.level = level,
                     !.consumed_flag_ = FALSE, !.stream_ = <<>>,
                     !.stmts = Append(@, [level |-> level, body |-> body])]]
    /\ UNCHANGED <<mutex_, emit, out, calllog, scraper_vars, store_vars,
                   pool_vars, id_vars, wait_vars>>

\* Logger::Get().NewStream(level) outside LOG: a handle that is destroyed
\* without having been converted to bool
NewStreamUnused(t, level) ==
    /\ log_handle[t].pc = "none"
    /\ emit[t].pc = "idle"
    /\ global_logger
    /\ log_handle' = [log_handle EXCEPT ![t] =
           [@ EXCEPT !.pc = "exit", !.macro = FALSE, !.level = level,
                     !.consumed_flag_ = FALSE, !.stream_ = <<>>]]
    /\ UNCHANGED <<level_, sinks_, mutex_, emit, out, calllog, global_logger,
                   got, scraper_vars, store_vars, pool_vars, id_vars,
                   wait_vars>>

\* operator bool that sets the flag and returns the flag it has set
LogCond_ReturnsNewFlag(t) ==
    /\ log_handle[t].pc = "cond"
    /\ log_handle' = [log_handle EXCEPT ![t].consumed_flag_ = TRUE,
                                        ![t].pc = "exit"]
    /\ UNCHANGED <<level_, sinks_, mutex_, emit, out, calllog, global_logger,
                   got, scraper_vars, store_vars, pool_vars, id_vars,
                   wait_vars>>

\* the condition !log_handle: LogAs::operator bool returns the flag as it
\* was and sets it
LogCond(t) ==
    /\ log_handle[t].pc = "cond"
    /\ LET is_consumed == log_handle[t].consumed_flag_
       IN log_handle' = [log_handle EXCEPT
              ![t].consumed_flag_ = TRUE,
              ![t].pc = IF ~is_consumed THEN "body" ELSE "exit"]
    /\ UNCHANGED <<level_, sinks_, mutex_, emit, out, calllog, global_logger,
                   got, scraper_vars, store_vars, pool_vars, id_vars,
                   wait_vars>>

\* the loop body: log_handle.Stream() << body
LogBody(t) ==
    /\ log_handle[t].pc = "body"
    /\ LET stmt == log_handle[t].stmts[Len(log_handle[t].stmts)]
       IN log_handle' = [log_handle EXCEPT
              ![t].stream_ = Append(@, stmt.body),
              ![t].pc = "cond"]
    /\ UNCHANGED <<level_, sinks_, mutex_, emit, out, calllog, global_logger,
                   got, scraper_vars, store_vars, pool_vars, id_vars,
                   wait_vars>>

\* LogAs::~LogAs: if (consumed_flag_) logger_.Emit({level_, stream_.str()});
\* Emit starts by taking the logger's mutex_
LogDestroy(t) ==
    /\ log_handle[t].pc = "exit"
    /\ IF log_handle[t].consumed_flag_
       THEN /\ mutex_ = 0
            /\ mutex_' = t
            /\ emit' = [emit EXCEPT ![t] =
                   [pc |-> "check", msg |-> CountOp("Emit") + 1,
                    level |-> log_handle[t].level, idx |-> 0]]
            /\ calllog' = Append(calllog,
                   [op |-> "Emit", arg |-> log_handle[t].level,
                    msg |-> CountOp("Emit") + 1])
            /\ log_handle' = [log_handle EXCEPT
                   ![t].pc = "none",
                   ![t].emitted = Append(@,
                       [level |-> log_handle[t].level,
                        message |-> log_handle[t].stream_])]
       ELSE /\ log_handle' = [log_handle EXCEPT ![t].pc = "none"]
            /\ UNCHANGED <<mutex_, emit, calllog>>
    /\ UNCHANGED <<level_, sinks_, out, global_logger, got, scraper_vars,
                   store_vars, pool_vars, id_vars, wait_vars>>

NextLogAs ==
    \/ \E t \in LogThreads, level \in StmtLevels, body \in Bodies :
          LogBegin(t, level, body)
    \/ \E t \in LogThreads, level \in StmtLevels : NewStreamUnused(t, level)
    \/ \E t \in LogThreads : LogCond(t)
    \/ \E t \in LogThreads : LogBody(t)
    \/ \E t \in LogThreads : LogDestroy(t)
    \/ \E t \in LogThreads : log_handle[t].pc = "none" /\ Default(t)
    \/ \E t \in LogThreads : EmitCheck(t)
    \/ \E t \in LogThreads : EmitSink(t)

SpecLogAs == InitDefault /\ [][NextLogAs]_vars

(***************************************************************************)
(* The scrapers of a little-endian and of a big-endian binary walking      *)
(* units that hold records with bit-fields.                                *)
(***************************************************************************)
BitDies == {4, 13, 14}

NextBits ==
    \/ \E s \in Scrapers : BeginUnit(s)
    \/ \E s \in Scrapers, d \in BitDies : VisitRecord(s, d)
    \/ \E s \in Scrapers : EndUnitTypesAndMembers(s)
    \/ \E s \in Scrapers : EndUnitFlatten(s)
    \/ \E s \in Scrapers : EndUnitBoundsAndAliases(s)

SpecBits == Init /\ [][NextBits]_vars

(***************************************************************************)
(* The scraper threads calling GetStructTypeId and GetStructMemberId.  A    *)
(* call is one step: ++ on a std::atomic is a single read-modify-write, and *)
(* the value returned is the value it stored.  The counters are 64 bits     *)
(* wide and start at 1; no run comes near the 2^64 calls that wrap them.    *)
(***************************************************************************)
\* calls of the two functions, by all threads together
MaxIdCalls == 6

RECURSIVE CallsOf(_, _)
CallsOf(rets, threads) ==
    IF threads = {} THEN 0
    ELSE LET s == CHOOSE x \in threads : TRUE
         IN Len(rets[s].type) + Len(rets[s].member)
              + CallsOf(rets, threads \ {s})

IdCalls(rets) == CallsOf(rets, Scrapers)

\* an increment that is a separate load and store: the store of a concurrent
\* call may be lost
GetStructTypeId_LostUpdate(s) ==
    /\ IdCalls(returned) < MaxIdCalls
    /\ struct_id' \in {struct_id, struct_id + 1}
    /\ returned' = [returned EXCEPT ![s].type = Append(@, struct_id + 1)]
    /\ UNCHANGED <<pc, struct_type_map, nvisits, units, member_id, dup_structs,
                   copies, flushed, warnings, store_vars, pool_vars, log_vars,
                   wait_vars>>

\* return ++struct_id;
GetStructTypeId(s) ==
    /\ IdCalls(returned) < MaxIdCalls
    /\ struct_id' = struct_id + 1
    /\ returned' = [returned EXCEPT ![s].type = Append(@, struct_id')]
    /\ UNCHANGED <<pc, struct_type_map, nvisits, units, member_id, dup_structs,
                   copies, flushed, warnings, store_vars, pool_vars, log_vars,
                   wait_vars>>

\* return ++struct_id; (the static counter of GetStructMemberId)
GetStructMemberId(s) ==
    /\ IdCalls(returned) < MaxIdCalls
    /\ member_id' = member_id + 1
    /\ returned' = [returned EXCEPT ![s].member = Append(@, member_id')]
    /\ UNCHANGED <<pc, struct_type_map, nvisits, units, struct_id, dup_structs,
                   copies, flushed, warnings, store_vars, pool_vars, log_vars,
                   wait_vars>>

NextIds ==
    \/ \E s \in Scrapers : GetStructTypeId(s)
    \/ \E s \in Scrapers : GetStructMemberId(s)

SpecIds == Init /\ [][NextIds]_vars

(***************************************************************************)
(* Helpers of the properties.                                              *)
(***************************************************************************)
IsPrefix(p, str) == Len(p) <= Len(str) /\ SubSeq(str, 1, Len(p)) = p

\* the scraper has committed the first transaction of the current unit
Flushed(s) == pc[s] \in {"flushed", "flattened"}

Others(s) == Scrapers \ {s}

StructIds == {r.id : r \in struct_type}

(***************************************************************************)
(* C1: under any interleaving of EndUnit flushes by the scrapers sharing   *)
(* the store, struct_type holds one row per (name, file, line), the entry  *)
(* a scraper keeps in memory carries after its flush the id of that row,   *)
(* and a committed row is never replaced (the first writer's id stays).    *)
(***************************************************************************)
C1_OneRowPerKeyState ==
    /\ \A r1, r2 \in struct_type : KeyOf(r1) = KeyOf(r2) => r1 = r2
    /\ \A s \in Scrapers : Flushed(s) =>
         \A k \in DOMAIN struct_type_map[s] :
            \E r \in struct_type :
                KeyOf(r) = k /\ r.id = struct_type_map[s][k].data.id

C1_OneRowPerKey ==
    /\ []C1_OneRowPerKeyState
    /\ [][\A r \in struct_type : r \in struct_type']_vars

\* a scraper's entry carries the id of a row another scraper committed
C1_Witness ==
    \E s \in Scrapers :
        /\ Flushed(s)
        /\ \E k \in DOMAIN struct_type_map[s] :
             LET e == struct_type_map[s][k] IN
             /\ e.skip_postprocess
             /\ e.data.id \notin flushed[s]
             /\ \E o \in Others(s) : e.data.id \in flushed[o]
             /\ \E r \in struct_type : r.id = e.data.id /\ KeyOf(r) = k

(***************************************************************************)
(* C6: every struct_member row has owner different from nested, a nested   *)
(* that is set names an existing struct_type row, and the nested of a      *)
(* scraper's member is the id its nested entry carries after the flush     *)
(* (the pre-existing global id when the nested insert was suppressed).     *)
(***************************************************************************)
C6_NestedRefersToExistingType ==
    /\ \A m \in struct_member :
         /\ m.owner # m.nested
         /\ m.nested # NoVal => m.nested \in StructIds
    /\ \A s \in Scrapers : Flushed(s) =>
         \A k \in DOMAIN struct_type_map[s] :
            LET e == struct_type_map[s][k] IN
            \A i \in DOMAIN e.members :
                e.members[i].nested # NoVal =>
                    /\ e.members[i].nested \in StructIds
                    /\ \E r \in struct_member :
                          /\ r.id = e.members[i].id
                          /\ r.nested \in StructIds

\* a member committed by one scraper whose nested type row was committed
\* earlier by another scraper (the local id of the nested entry was remapped)
C6_Witness ==
    \E s \in Scrapers :
        /\ Flushed(s)
        /\ \E k \in DOMAIN struct_type_map[s] :
             LET e == struct_type_map[s][k] IN
             /\ ~e.skip_postprocess
             /\ \E i \in DOMAIN e.members :
                  LET m == e.members[i] IN
                  /\ m.nested # NoVal
                  /\ m.nested \notin flushed[s]
                  /\ m.nested \in StructIds
                  /\ m \in struct_member

(***************************************************************************)
(* C9: dup_structs of a scraper equals the number of struct_type inserts   *)
(* it issued, over all its units, that were suppressed because a row with  *)
(* the same key existed: the rows it handed over whose id is not in the    *)
(* table.                                                                  *)
(***************************************************************************)
SuppressedInserts(s) == {id \in flushed[s] : id \notin StructIds}

C9_DupStructsCountsSuppressed ==
    \A s \in Scrapers :
        pc[s] # "failed" => dup_structs[s] = Cardinality(SuppressedInserts(s))

\* a scraper that had two inserts suppressed and one accepted
C9_Witness ==
    \E s \in Scrapers :
        /\ pc[s] = "idle"
        /\ dup_structs[s] = 2
        /\ Cardinality(flushed[s]) > 2

(***************************************************************************)
(* Helpers over the layouts computed by the post-processing loop.          *)
(***************************************************************************)
\* the layout FindSubobjectCapabilities produced for the entry of key k
LayoutOf(s, k) == copies[s][k].flattened_layout

\* the entry of the scraper's unit that carries the (global) id
EntryWithId(s, id) ==
    struct_type_map[s][CHOOSE k \in DOMAIN struct_type_map[s] :
                          struct_type_map[s][k].data.id = id]

\* the member rows of all the entries of the scraper's unit
UnitMembers(s) ==
    UNION {{struct_type_map[s][k].members[i] :
               i \in DOMAIN struct_type_map[s][k].members} :
           k \in DOMAIN struct_type_map[s]}

(***************************************************************************)
(* C2: for a (name, file, line) key whose record has a member, once every  *)
(* scraper that visited the key has completed EndUnit, the member_bounds   *)
(* rows owned by the type are present and none of them is duplicated.      *)
(***************************************************************************)
C2_BoundsRowsPresentOnce ==
    \A t \in struct_type :
        (/\ \A s \in Scrapers : KeyOf(t) \notin DOMAIN struct_type_map[s]
         /\ \E m \in struct_member : m.owner = t.id)
        => /\ \E i \in DOMAIN member_bounds : member_bounds[i].owner = t.id
           /\ \A i, j \in DOMAIN member_bounds :
                (/\ member_bounds[i].owner = t.id
                 /\ member_bounds[j].owner = t.id
                 /\ member_bounds[i].name = member_bounds[j].name
                 /\ member_bounds[i].member = member_bounds[j].member)
                => i = j

(***************************************************************************)
(* C3: the flattened layout of a top-level record whose member m is a      *)
(* record holds, for every member n of the nested record, a row named      *)
(* Top::m::n, placed before the row Top::m of m itself.                    *)
(***************************************************************************)
C3_NestedRowsUseTopLevelPrefix ==
    \A s \in Scrapers : pc[s] = "flattened" =>
        \A k \in DOMAIN copies[s] :
            LET top == copies[s][k]
                layout == top.flattened_layout
            IN \A i \in DOMAIN top.members :
                 LET m == top.members[i] IN
                 m.nested # NoVal =>
                   LET nested == EntryWithId(s, m.nested) IN
                   \A j \in DOMAIN nested.members :
                     \E p, q \in DOMAIN layout :
                        /\ p < q
                        /\ layout[p].name = top.data.name \o Sep \o m.name
                                              \o Sep \o nested.members[j].name
                        /\ layout[q].name = top.data.name \o Sep \o m.name
                        /\ layout[q].member = m.id

(***************************************************************************)
(* C4: the offset of a flattened row is the sum of the byte offsets of the *)
(* members along its path from the start of the top-level owner.           *)
(***************************************************************************)
C4_OffsetsAreCumulative ==
    \A s \in Scrapers : pc[s] = "flattened" =>
        \A k \in DOMAIN copies[s] :
            LET top == copies[s][k]
                layout == top.flattened_layout
            IN \A i \in DOMAIN top.members :
                 LET m == top.members[i] IN
                 /\ \A p \in DOMAIN layout :
                      layout[p].member = m.id => layout[p].offset = m.byte_offset
                 /\ m.nested # NoVal =>
                      LET nested == EntryWithId(s, m.nested) IN
                      \A j \in DOMAIN nested.members, p \in DOMAIN layout :
                         layout[p].member = nested.members[j].id =>
                            layout[p].offset =
                                m.byte_offset + nested.members[j].byte_offset

RequiredLength(m) == m.byte_size + (IF m.bit_size > 0 THEN 1 ELSE 0)

C8_ImpreciseIffBoundsDiffer ==
    \A s \in Scrapers : pc[s] = "flattened" =>
        \A k \in DOMAIN copies[s] :
            \A p \in DOMAIN LayoutOf(s, k) :
                LET row == LayoutOf(s, k)[p] IN
                \A m \in UnitMembers(s) :
                    m.id = row.member =>
                        (row.is_imprecise <=>
                            (\/ row.base # row.offset
                             \/ row.top - row.base # RequiredLength(m)))

(***************************************************************************)
(* C10: a task calls initSchema before run and does not call run after a   *)
(* failed initSchema; its future is resolved once, with the result when    *)
(* both calls returned and with the error when one threw, and stays as     *)
(* resolved; a task that a thread has started gets its future resolved,    *)
(* and so does every scheduled task unless cancel() is called, whatever    *)
(* happens to the other tasks.                                             *)
(***************************************************************************)
C10_TaskState ==
    \A t \in Tasks :
        /\ calls[t] \in {<<>>, <<<<"initSchema", TRUE>>>>,
                         <<<<"initSchema", FALSE>>>>,
                         <<<<"initSchema", TRUE>>, <<"run", TRUE>>>>,
                         <<<<"initSchema", TRUE>>, <<"run", FALSE>>>>}
        /\ nresolved[t] <= 1
        /\ task[t] = "finished" => nresolved[t] = 1
        /\ future[t] = "value" <=> (InitSchemaOk(t) /\ RunOk(t))
        /\ future[t] = "error" <=> (InitSchemaFailed(t) \/ RunFailed(t))

C10_TaskResolvesFutureOnce ==
    /\ []C10_TaskState
    /\ [][\A t \in Tasks : future[t] \in {"value", "error"}
                              => future'[t] = future[t]]_vars
    /\ \A t \in Tasks :
         /\ (task[t] \in {"started", "inited"})
                ~> (future[t] \in {"value", "error"})
         /\ (future[t] = "pending")
                ~> (future[t] \in {"value", "error"} \/ stop_requested)

\* one task failed in initSchema, one failed in run, and a task started
\* after them completed with its result
C10_Witness ==
    /\ future[1] = "error" /\ InitSchemaFailed(1) /\ ~RunCalled(1)
    /\ future[2] = "error" /\ RunFailed(2)
    /\ future[3] = "value" /\ nresolved[3] = 1

(***************************************************************************)
(* C7: every pair (a, b) of subobject_alias has a and b of the same owner, *)
(* a different from b, a byte that lies both in [a.base, a.top) and in the *)
(* extent of b, [b.offset, b.offset + size + (1 for a bit-field)), and     *)
(* neither name a prefix of the other.                                     *)
(***************************************************************************)
C7_AliasPairsOverlapAndAreUnrelated ==
    \A pair \in subobject_alias :
        LET a == member_bounds[pair[1]]
            b == member_bounds[pair[2]]
        IN /\ a.owner = b.owner
           /\ pair[1] # pair[2]
           /\ \E bm \in struct_member :
                /\ bm.id = b.member
                /\ \E byte \in a.base..(a.top - 1) :
                     /\ b.offset <= byte
                     /\ byte < b.offset + bm.byte_size
                                 + (IF bm.bit_size > 0 THEN 1 ELSE 0)
           /\ ~IsPrefix(a.name, b.name)
           /\ ~IsPrefix(b.name, a.name)

\* the imprecise bit-field S::f, whose bounds [4, 10) reach into S::c at 8,
\* is recorded as aliasing S::c
C7_Witness ==
    \E pair \in subobject_alias :
        /\ member_bounds[pair[1]].name = <<"S", ":", ":", "f">>
        /\ member_bounds[pair[1]].is_imprecise
        /\ member_bounds[pair[2]].name = <<"S", ":", ":", "c">>

(***************************************************************************)
(* C11: at the step that signals the stop token every task waiting in the  *)
(* queue is dropped, and a dropped task never starts (it makes no call);   *)
(* the token stays signalled; with the token signalled a job standing at a *)
(* unit boundary enters no other unit, while the unit in progress goes on  *)
(* to its EndUnit; and no step removes a committed row.                    *)
(***************************************************************************)
C11_CancelStep ==
    /\ stop_requested => stop_requested'
    /\ \A t \in Tasks :
         /\ (~stop_requested /\ stop_requested' /\ task[t] = "queued")
                => task'[t] = "dropped"
         /\ task[t] = "dropped" => (task'[t] = "dropped" /\ calls'[t] = <<>>)
         /\ (stop_requested /\ pc[t] = "idle") => pc'[t] = "idle"
    /\ \A r \in struct_type : r \in struct_type'
    /\ \A r \in struct_member : r \in struct_member'
    /\ IsPrefix(member_bounds, member_bounds')
    /\ subobject_alias \subseteq subobject_alias'

C11_CancelStopsWork ==
    /\ [](\A t \in Tasks :
            task[t] = "dropped" =>
                calls[t] = <<>> /\ pc[t] = "idle" /\ flushed[t] = {})
    /\ [][C11_CancelStep]_vars

\* the token is signalled, a queued task was dropped, and a job whose unit
\* was in progress has committed the unit's first transaction and is about
\* to finish the unit
C11_Witness ==
    /\ stop_requested
    /\ \E t \in Tasks : task[t] = "dropped"
    /\ \E u \in Tasks :
         /\ task[u] = "inited"
         /\ pc[u] = "flattened"
         /\ \E r \in struct_type : r.id \in flushed[u]

(***************************************************************************)
(* C12: once initSchema has failed in a job, all jobs are aborted: no      *)
(* other job goes on from its initSchema to run, none enters a             *)
(* compilation unit, and no row is committed to the store.                 *)
(***************************************************************************)
SchemaFailure == \E t \in Tasks : InitSchemaFailed(t)

C12_SchemaFailureAbortsAllJobs ==
    [][SchemaFailure =>
          /\ \A u \in Tasks :
               /\ task[u] = "started" => task'[u] # "inited"
               /\ pc[u] = "idle" => pc'[u] = "idle"
          /\ UNCHANGED store_vars]_vars

(***************************************************************************)
(* C13: a step of a job that meets a record DIE without DW_AT_byte_size    *)
(* (it logs the warning) raises no error and the job goes on with its      *)
(* unit; no entry is made for the DIE and no type id is allocated for it.  *)
(***************************************************************************)
\* the keys of the record DIEs that have no DW_AT_byte_size
KeysWithoutSize ==
    {<<Dies[d].name, Dies[d].file, Dies[d].line>> :
        d \in {e \in DOMAIN Dies : Dies[e].byte_size = NoVal}}

C13_MissingSizeIsSkipped ==
    [][\A s \in Jobs :
          warnings'[s] > warnings[s] =>
              /\ pc'[s] = "unit"
              /\ DOMAIN struct_type_map'[s] \cap KeysWithoutSize = {}
              /\ struct_id' - struct_id =
                     Cardinality(DOMAIN struct_type_map'[s])
                       - Cardinality(DOMAIN struct_type_map[s])]_vars

(***************************************************************************)
(* C14 as stated: the visit of a record DIE that carries                   *)
(* DW_AT_specification, the BeginUnit of a unit without a readable name,   *)
(* and the visit of a record DIE that has members and no DW_AT_byte_size   *)
(* each make the job fail: the job stops and its future resolves with an   *)
(* error.                                                                  *)
(***************************************************************************)
DiesWithSpecification == {d \in VisitDies : Dies[d].specification}

DiesWithMembersWithoutSize ==
    {d \in VisitDies : Dies[d].byte_size = NoVal /\ Dies[d].members # <<>>}

\* a failed job ends with the error on its future
FailedJobResolvesWithError ==
    \A t \in Tasks :
        /\ (task[t] = "finished" /\ pc[t] = "failed") => future[t] = "error"
        /\ future[t] = "error" => (InitSchemaFailed(t) \/ pc[t] = "failed")

\* a failed job makes no further step on its units or on the store
FailedJobStops(s) ==
    pc[s] = "failed" => (pc'[s] = "failed" /\ UNCHANGED store_vars)

Path2(a, b) == a \o Sep \o b
Path3(a, b, c) == a \o Sep \o b \o Sep \o c

\* the is_vla values of the layout_member rows of type t named `name`
VlaFlags(t, name) ==
    {row.is_vla : row \in {x \in layout_member(struct_member, t.id, t.name,
                                              MaxNesting) : x.name = name}}

C15_VlaMembersAreFlagged ==
    \A t \in struct_type :
        /\ t.name = <<"F">> =>
             /\ VlaFlags(t, Path2(<<"F">>, <<"d">>)) = {TRUE}
             /\ VlaFlags(t, Path2(<<"F">>, <<"n">>)) = {FALSE}
             /\ type_layout_has_vla(struct_member, t)
        /\ t.name = <<"Z">> =>
             /\ VlaFlags(t, Path2(<<"Z">>, <<"d">>)) = {TRUE}
             /\ VlaFlags(t, Path2(<<"Z">>, <<"n">>)) = {FALSE}
             /\ VlaFlags(t, Path2(<<"Z">>, <<"e">>)) = {FALSE}
             /\ type_layout_has_vla(struct_member, t)
        /\ t.name = <<"W">> =>
             /\ VlaFlags(t, Path3(<<"W">>, <<"i", "n">>, <<"d">>)) = {TRUE}
             /\ VlaFlags(t, Path3(<<"W">>, <<"i", "n">>, <<"n">>)) = {FALSE}
             /\ VlaFlags(t, Path2(<<"W">>, <<"i", "n">>)) = {FALSE}
             /\ VlaFlags(t, Path2(<<"W">>, <<"x">>)) = {FALSE}
             /\ type_layout_has_vla(struct_member, t)
        /\ t.name \in {<<"I">>, <<"O">>, <<"P">>} =>
             ~type_layout_has_vla(struct_member, t)

\* W is committed in a later unit than the F it holds by value, and the path
\* W::in::d reaches the flexible array through the id F was given then
C15_Witness ==
    \E t, f \in struct_type :
        /\ t.name = <<"W">>
        /\ f.name = <<"F">>
        /\ f.id \in flushed[VisitJob]
        /\ dup_structs[VisitJob] > 0
        /\ \E m \in struct_member : m.owner = t.id /\ m.nested = f.id
        /\ TRUE \in VlaFlags(t, Path3(<<"W">>, <<"i", "n">>, <<"d">>))

(***************************************************************************)
(* C16: with kError < kWarn < kInfo < kDebug < kTrace, the calls made on   *)
(* the sinks are those of the messages taken one at a time in the order    *)
(* their Emit calls took effect: each message whose level is not above the *)
(* filter level then in force (kInfo at first, afterwards the level of the *)
(* last SetLevel) goes to every sink attached at that time, once each, in  *)
(* the order of AddSink, and a message above the filter goes to none.      *)
(***************************************************************************)
\* the calls on the sinks that the calls logged from the i-th on must make,
\* under the filter level and the sinks in force before the i-th
RECURSIVE ExpectedOut(_, _, _)
ExpectedOut(i, filter, sinks) ==
    IF i > Len(calllog) THEN <<>>
    ELSE LET c == calllog[i] IN
         CASE c.op = "AddSink" -> ExpectedOut(i + 1, filter, Append(sinks, c.arg))
           [] c.op = "SetLevel" -> ExpectedOut(i + 1, c.arg, sinks)
           [] c.op = "Emit" ->
                (IF c.arg <= filter
                 THEN [k \in 1..Len(sinks) |-> [sink |-> sinks[k], msg |-> c.msg]]
                 ELSE <<>>)
                \o ExpectedOut(i + 1, filter, sinks)

C16_MessagesReachSinksInOrder ==
    /\ kError < kWarn /\ kWarn < kInfo /\ kInfo < kDebug /\ kDebug < kTrace
    /\ IsPrefix(out, ExpectedOut(1, kInfo, <<>>))
    /\ (\A t \in LogThreads : emit[t].pc = "idle")
           => out = ExpectedOut(1, kInfo, <<>>)

\* after SetLevel(kDebug) a kDebug message has gone to the two sinks, and a
\* kTrace message to none
C16_Witness ==
    /\ \A t \in LogThreads : emit[t].pc = "idle"
    /\ level_ = kDebug
    /\ Len(out) = 2
    /\ out[1].sink = 1 /\ out[2].sink = 2 /\ out[1].msg = out[2].msg
    /\ \E i \in DOMAIN calllog :
         calllog[i].op = "Emit" /\ calllog[i].arg = kDebug
                                /\ calllog[i].msg = out[1].msg
    /\ \E i \in DOMAIN calllog :
         calllog[i].op = "Emit" /\ calllog[i].arg = kTrace

(***************************************************************************)
(* C17: while a unit is walked, the visit of a record DIE whose key        *)
(* (name, file, line) is in struct_type_map returns the id of the entry,   *)
(* which is the id the entry got at the first visit, and changes neither   *)
(* struct_type_map (so neither the members collected) nor the two id       *)
(* counters, whatever the size and the members of the DIE.                 *)
(***************************************************************************)
KeyOfDie(d) == <<Dies[d].name, Dies[d].file, Dies[d].line>>

C17_ReturnsFirstId ==
    \A s \in Jobs, d \in VisitDies :
        (pc[s] = "unit" /\ KeyOfDie(d) \in DOMAIN struct_type_map[s]) =>
            LET st == VisitCommon(VisitState(s, TRUE), d, Dies[d].kind)
            IN /\ st.ret = struct_type_map[s][KeyOfDie(d)].data.id
               /\ st.map = struct_type_map[s]
               /\ st.tid = struct_id
               /\ st.mid = member_id
               /\ ~st.err

C17_RevisitStep ==
    \A s \in Jobs :
        /\ \A d \in VisitDies :
             (/\ pc[s] = "unit"
              /\ KeyOfDie(d) \in DOMAIN struct_type_map[s]
              /\ VisitRecord(s, d))
             => UNCHANGED <<struct_type_map, struct_id, member_id, pc>>
        /\ (pc[s] = "unit" /\ pc'[s] = "unit") =>
             \A k \in DOMAIN struct_type_map[s] :
                /\ k \in DOMAIN struct_type_map'[s]
                /\ struct_type_map'[s][k] = struct_type_map[s][k]

LegacyBitPosition(m, little_endian) ==
    IF little_endian
    THEN m.location * 8 + m.byte_size * 8 - (m.bit_offset + m.bit_size)
    ELSE m.location * 8 + m.bit_offset

C18_LegacyBitOffsetIsFolded ==
    \A s \in Scrapers, d \in BitDies :
        KeyOfDie(d) \in DOMAIN struct_type_map[s] =>
            \A i \in DOMAIN Dies[d].members :
                LET m == Dies[d].members[i]
                    row == struct_type_map[s][KeyOfDie(d)].members[i]
                    P == LegacyBitPosition(m, IsLittleEndian(s))
                IN (/\ m.bit_offset # NoVal
                    /\ m.location # NoVal
                    /\ m.data_bit_offset = NoVal)
                   => /\ row.byte_offset = P \div 8
                      /\ row.bit_offset = P % 8

(***************************************************************************)
(* C19: once the alias query of an owner has put its pairs in              *)
(* subobject_alias, every two differently named bounds rows of the owner   *)
(* of which the first                                                      *)
(* one's representable range overlaps the extent of the second and neither *)
(* is an ancestor of the other on the member path (a::b is an ancestor of  *)
(* a::b::c, not of a::bc) are in the table as an alias pair.               *)
(***************************************************************************)
\* the row a is a containing ancestor of the row b on the member path
IsAncestorPath(a, b) == IsPrefix(a.name \o Sep, b.name)

\* the representable range of the row mb reaches into the extent of alb
RangeOverlapsExtent(mb, alb) ==
    \E alm \in struct_member :
        /\ alb.member = alm.id
        /\ Max(alb.offset, mb.base)
             < Min(alb.offset + alm.byte_size + IIF(alm.bit_size, 1, 0), mb.top)

UniqueNonZeroIncreasing(seqs) ==
    /\ \A s \in Scrapers : \A i \in DOMAIN seqs[s] : seqs[s][i] # 0
    /\ \A s \in Scrapers : \A i, j \in DOMAIN seqs[s] :
           i < j => seqs[s][i] < seqs[s][j]
    /\ \A s, t \in Scrapers : \A i \in DOMAIN seqs[s], j \in DOMAIN seqs[t] :
           seqs[s][i] = seqs[t][j] => (s = t /\ i = j)

C20_IdsAreUniqueAndIncreasing ==
    /\ UniqueNonZeroIncreasing([s \in Scrapers |-> returned[s].type])
    /\ UniqueNonZeroIncreasing([s \in Scrapers |-> returned[s].member])

\* two threads have each received type ids and member ids, their calls
\* interleaved: the values of a thread are not consecutive
C20_Witness ==
    \E s, t \in Scrapers :
        /\ s # t
        /\ Len(returned[s].type) >= 2 /\ Len(returned[t].type) >= 1
        /\ returned[s].type[2] > returned[s].type[1] + 1
        /\ Len(returned[s].member) >= 2 /\ Len(returned[t].member) >= 1
        /\ returned[s].member[2] > returned[s].member[1] + 1

(***************************************************************************)
(* C21: for every member that flattening has given a bounds row, the       *)
(* required length its bounds were computed from equals the length of the  *)
(* extent (check_top - offset) the alias_bounds view gives the member,     *)
(* also when the member's bit_size is present and zero.                    *)
(***************************************************************************)
\* check_top - alb.offset of the view: alm.size + IIF(alm.bit_size, 1, 0)
ExtentLength(m) == m.byte_size + IIF(m.bit_size, 1, 0)

\* the members of the scraper's records that have a row in a flattened layout
FlattenedMembers(s) ==
    {m \in UNION {{e.members[i] : i \in DOMAIN e.members} :
                    e \in {copies[s][k] : k \in DOMAIN copies[s]}} :
        \E k \in DOMAIN copies[s] :
            \E i \in DOMAIN copies[s][k].flattened_layout :
                copies[s][k].flattened_layout[i].member = m.id}

C21_RequiredLengthIsExtentLength ==
    \A s \in Scrapers : \A m \in FlattenedMembers(s) :
        ReqLength(m) = ExtentLength(m)

(***************************************************************************)
(* C22: every future schedule() returned becomes ready, with a value or an *)
(* error (the error of a task that cancel() removed from the queue is the  *)
(* broken promise), whatever the order of the schedule, cancel and wait    *)
(* calls; and when wait() returns no future is pending.                    *)
(***************************************************************************)
FutureReady(t) == future[t] \in {"value", "error", "broken"}

C22_WaitReturnStep ==
    (waiter = "waiting" /\ waiter' = "returned")
        => \A t \in Tasks : future'[t] # "pending"

C22_FuturesBecomeReady ==
    /\ \A t \in Tasks : (future[t] = "pending") ~> FutureReady(t)
    /\ [][C22_WaitReturnStep]_vars

\* a cancel() has removed a task from the queue and broken its promise, a
\* task scheduled after that cancel() is queued (cancel() empties the
\* queue when it requests the stop), and a thread is blocked in wait()
C22_Witness ==
    /\ waiter = "waiting"
    /\ stop_requested
    /\ \E t, u \in Tasks :
          /\ task[t] = "dropped" /\ future[t] = "broken"
          /\ task[u] = "queued" /\ future[u] = "pending"

(***************************************************************************)
(* C23: whatever units the scrapers have flushed, the struct_member rows   *)
(* owned by one struct_type row are members of a single definition of the  *)
(* record; a later definition with the same (name, file, line) and other   *)
(* members adds no row to the owner.                                       *)
(***************************************************************************)
\* (name, offset) of the members of the record DIE d
DefinitionMembers(d) ==
    {<<Dies[d].members[i].name, Dies[d].members[i].location>> :
        i \in DOMAIN Dies[d].members}

\* (name, offset) of the struct_member rows of the owner
RowsOwnedBy(owner) ==
    {<<m.name, m.byte_offset>> : m \in {x \in struct_member : x.owner = owner}}

C23_MembersComeFromOneDefinition ==
    \A t \in struct_type :
        \E d \in TopDies :
            /\ <<Dies[d].name, Dies[d].file, Dies[d].line>>
                 = <<t.name, t.file, t.line>>
            /\ RowsOwnedBy(t.id) \subseteq DefinitionMembers(d)

(***************************************************************************)
(* C24: once Logger::Default() has returned to a thread, the global logger *)
(* has a console sink, whatever calls of Get() and Default() came before,  *)
(* and the calls of Default() never attach more than one console sink.     *)
(***************************************************************************)
ConsoleSinks == {i \in DOMAIN sinks_ : sinks_[i] = ConsoleSink}

C24_DefaultLoggerHasOneConsoleSink ==
    /\ (\E t \in LogThreads : got[t] = "Default") => ConsoleSinks # {}
    /\ Cardinality(ConsoleSinks) <= 1

(***************************************************************************)
(* C25: every LOG(level) << body statement a thread has executed gave      *)
(* Logger::Emit one message, with the level of the statement and the text  *)
(* of its body streamed once, in the order of the statements; the message  *)
(* is given when the handle is destroyed, after the body has run exactly   *)
(* once; a handle whose body never ran gives Emit nothing.                 *)
(***************************************************************************)
\* the message of the k-th LOG statement of the handle record h
MessageOf(h, k) == [level |-> h.stmts[k].level, message |-> <<h.stmts[k].body>>]

\* messages given to Logger::Emit by the handles of the threads 1..n
RECURSIVE EmittedUpTo(_)
EmittedUpTo(n) ==
    IF n = 0 THEN 0 ELSE Len(log_handle[n].emitted) + EmittedUpTo(n - 1)

C25_OneMessagePerLogStatement ==
    /\ \A t \in LogThreads :
         LET h == log_handle[t]
             live == h.pc # "none" /\ h.macro
             done == IF live THEN Len(h.stmts) - 1 ELSE Len(h.stmts)
         IN /\ h.emitted = [k \in 1..done |-> MessageOf(h, k)]
            /\ live =>
                 h.stream_ = IF h.pc = "body" \/ ~h.consumed_flag_ THEN <<>>
                             ELSE <<h.stmts[Len(h.stmts)].body>>
            /\ (live /\ h.pc = "exit") => h.consumed_flag_
    /\ CountOp("Emit") = EmittedUpTo(NumLogThreads)

\* a thread has executed two LOG statements and its two messages are with
\* Logger::Emit, the first has reached the console sink; the other thread
\* has destroyed a handle it never used and has given Emit nothing
C25_Witness ==
    \E t, u \in LogThreads :
        /\ t # u
        /\ Len(log_handle[t].stmts) = 2
        /\ Len(log_handle[t].emitted) = 2
        /\ log_handle[t].pc = "none"
        /\ \E i \in DOMAIN out : out[i].sink = ConsoleSink
        /\ log_handle[u].stmts = <<>>
        /\ log_handle[u].pc = "none" /\ log_handle[u].level # NoVal
        /\ log_handle[u].emitted = <<>>

====
